---- MODULE Spec2Model ----
(***************************************************************************)
(* Model of the slideshow generator's server side:                         *)
(*   - generateCaptions            (src/lib/anthropic.ts)                  *)
(*   - the caption handler         (unnamed/part_008)                      *)
(*   - the two order handlers      (src/app/api/order/route.ts and         *)
(*                                  unnamed/part_005)                      *)
(*   - invokeGeminiWithTool        (src/lib/google.ts)                     *)
(*   - the batch handler with its SSE helpers                              *)
(*                                 (src/app/api/migrate/route.ts 301-565)  *)
(*   - saveGeneration and the environment checks made on module load       *)
(*                                 (src/lib/db.ts, google.ts, anthropic.ts)*)
(*   - the process-uploads handler (src/app/api/migrate/route.ts 58-124)   *)
(*     and uploadFileToGeminiFromUrl (src/lib/google.ts 63-163)            *)
(***************************************************************************)
EXTENDS Integers, Sequences, FiniteSets, TLC

\* ------------------------------------------------------------------ bounds
MaxRetriesBound == 3      \* generateCaptions is explored for maxRetries in 0..MaxRetriesBound
MaxPerTheme == 2          \* slideshowsPerTheme of an order request is in 1..MaxPerTheme
MaxPlanLen == 3           \* the model's plan holds at most MaxPlanLen entries
MaxSlides == 4            \* a batch run in isolation gets at most MaxSlides slideshows
MaxSlidesShared == 1      \* overlapping batch runs get at most MaxSlidesShared each
MaxBlobs == 3             \* a process-uploads request lists at most MaxBlobs blobs

\* ------------------------------------------------------- program constants
DefaultMaxRetries == 2    \* anthropic.ts:50
DefaultInitialDelay == 1000 \* anthropic.ts:51
RequiredImages == 4       \* part_008:11
MockCaptionCount == 4     \* anthropic.ts:226-231 (four literal captions)

NULL == 0                 \* null / undefined

VARIABLES
  gcPc,        \* position of one generateCaptions call: idle / running / returned / threw
  gcArgs,      \* its arguments: [imageUrls, maxRetries, initialDelay]
  gcAttempt,   \* local `attempt`
  gcDelay,     \* local `delay`
  gcCalls,     \* loop iterations entered (upstream attempts)
  gcClaude,    \* claude.messages.create calls issued
  gcWaits,     \* the setTimeout waits performed, in order
  gcLast,      \* the upstream outcome of the last iteration
  gcResult,    \* the returned caption array
  ordVersion,  \* which order handler served the last order request
  ordBody,     \* the body of the last order request
  ordUpstream, \* what the Gemini call of that request produced
  ordResp,     \* the handler's response: [status, slideshows, calls, error]
  ordNow,      \* what Date.now() returned while that request was served
  ordPrev,     \* the same request as it was served before it was re-submitted
  reqPc,            \* where each batch request stands: off / idle / parse / order /
                    \* captions / cleanup / save / done
  reqBody,          \* its parsed body
  streamController, \* globalThis.streamController
  streams,          \* the events enqueued on the stream each request created
  streamClosed,     \* whether that stream was closed
  closedBy,         \* the request whose closeSSEStream call closed it
  orderData,        \* the slideshows the order call returned to each request
  task,             \* its caption tasks: queued / running / ok / failed
  results,          \* the values its caption promises resolved to, by position
  capReturned,      \* the captions the caption call issued for entry i returned
  httpResponse,     \* what the handler returned: none / stream / json500
  deleteCalls,      \* the identifiers deleteGeminiFile was called with
  dbRows,           \* the rows inserted into slideshow_generations
  orderStatus,      \* the status of the order call's response (0: none yet)
  saveCalls,        \* how each saveGeneration call of the run ended
  clientGone,       \* whether the client of the request has disconnected
  env,              \* the environment variables that are set
  upPc,             \* where the process-uploads request stands: idle / loop / done
  upBody,           \* its body: [shape, blobs]
  upIndex,          \* the position in the list of the blob being processed
  processedFiles,   \* local `processedFiles`
  upResp,           \* the handler's response: [status, files]
  ufPc,             \* position of the uploadFileToGeminiFromUrl call in progress:
                    \* idle / fetch / write / upload / unlink / out
  tempFilePath,     \* its local `tempFilePath`
  ufResult,         \* how it ends: none / returned / threw
  tmpDir,           \* the temporary files that exist on disk
  ufTrace           \* for each call so far: whether its temporary file was
                    \* written, how the Gemini upload and the unlink ended

ordVars == <<ordVersion, ordBody, ordUpstream, ordResp, ordNow, ordPrev>>

gcVars == <<gcPc, gcArgs, gcAttempt, gcDelay, gcCalls, gcClaude, gcWaits, gcLast, gcResult>>

(***************************************************************************)
(* generateCaptions (anthropic.ts 46-222)                                  *)
(***************************************************************************)

\* Captions the model writes for a list of images: one token per image.
\* (captions are numbered: 1000 + image for a model caption, 1..4 for the
\* four placeholder literals)
ModelCaptionsFor(imageUrls) == [k \in 1..Len(imageUrls) |-> 1000 + imageUrls[k]]

\* generateMockCaptions: the four literal captions, sliced to `count`.
mockCaptions == <<1, 2, 3, 4>>

generateMockCaptions(count) ==
  SubSeq(mockCaptions, 1, IF count < MockCaptionCount THEN count ELSE MockCaptionCount)

\* Outcomes of one upstream attempt.
\*   json      : Claude answered with parsable JSON; `captions` is the parsed
\*               `captions` member, hasCaptions is FALSE when it is missing or
\*               not an array
\*   badjson   : the text is not parsable (JSON.parse throws SyntaxError)
\*   nocontent : empty content / no text block (plain Error)
\*   fetchfail : an image could not be fetched (plain Error, Claude not called)
\*   apierr    : any other API error
\*   e404      : status 404 with type not_found_error
\*   r429      : status 429 or type rate_limit_error; retryAfter is the header
NoHeader == -1            \* no Retry-After header
NaNHeader == -2           \* a Retry-After header that parseInt turns into NaN

RetryAfterValues == {NoHeader, NaNHeader, 0, 3}

UpstreamOutcomes(imageUrls) ==
  { [kind |-> "json", hasCaptions |-> TRUE, captions |-> c, retryAfter |-> NoHeader] :
        c \in { ModelCaptionsFor(imageUrls),
                SubSeq(ModelCaptionsFor(imageUrls), 1, Len(imageUrls) - 1),
                Append(ModelCaptionsFor(imageUrls), 1000) } }
  \cup { [kind |-> "json", hasCaptions |-> FALSE, captions |-> <<>>, retryAfter |-> NoHeader] }
  \cup { [kind |-> k, hasCaptions |-> FALSE, captions |-> <<>>, retryAfter |-> NoHeader] :
        k \in {"badjson", "nocontent", "fetchfail", "apierr", "e404"} }
  \cup { [kind |-> "r429", hasCaptions |-> FALSE, captions |-> <<>>, retryAfter |-> h] :
        h \in RetryAfterValues }

NoOutcome == [kind |-> "none", hasCaptions |-> FALSE, captions |-> <<>>, retryAfter |-> NoHeader]
NoArgs == [imageUrls |-> <<>>, maxRetries |-> 0, initialDelay |-> 0]

\* lines 134 / 157: the parsed object is accepted
CaptionsAcceptedBug(o, imageUrls) ==
  /\ o.kind = "json"
  /\ o.hasCaptions

CaptionsAccepted(o, imageUrls) ==
  /\ o.kind = "json"
  /\ o.hasCaptions
  /\ Len(o.captions) = Len(imageUrls)

\* lines 181-191: the wait before a rate-limit retry
WaitTimeBug(o, delay) == delay

WaitTime(o, delay) ==
  IF o.retryAfter >= 0 THEN o.retryAfter * 1000 ELSE delay

\* One iteration of the while loop (lines 73-218) on local state st with the
\* upstream outcome o; followed by the loop test and the failsafe of 219-221.
GcReturn(st, captions) == [st EXCEPT !.pc = "returned", !.result = captions]

GcLoopTest(st, imageUrls, maxRetries) ==
  IF st.attempt <= maxRetries THEN st
  ELSE GcReturn(st, generateMockCaptions(Len(imageUrls)))

\* line 176: the value `attempt` gets on a 404 not_found_error
NotFoundAttemptBug(attempt, maxRetries) == attempt + 1

NotFoundAttempt(attempt, maxRetries) == maxRetries + 1

GcExhaustedBug(st, imageUrls) == [st EXCEPT !.pc = "threw"]

GcExhausted(st, imageUrls) == GcReturn(st, generateMockCaptions(Len(imageUrls)))

GcIteration(st, o, imageUrls, maxRetries) ==
  LET entered == [st EXCEPT !.calls = @ + 1,
                            !.claude = @ + (IF o.kind = "fetchfail" THEN 0 ELSE 1),
                            !.last = o]
  IN
  IF CaptionsAccepted(o, imageUrls)
  THEN GcReturn(entered, o.captions)                                 \* 135 / 158
  ELSE IF o.kind = "e404"
  THEN GcLoopTest([entered EXCEPT !.attempt = NotFoundAttempt(@, maxRetries)],  \* 173-178
                  imageUrls, maxRetries)
  ELSE IF o.kind = "r429"
  THEN IF entered.attempt < maxRetries                               \* 193-197
       THEN GcLoopTest([entered EXCEPT !.waits = Append(@, WaitTime(o, entered.delay)),
                                       !.delay = @ * 2,
                                       !.attempt = @ + 1],
                       imageUrls, maxRetries)
       ELSE GcExhausted(entered, imageUrls)                          \* 198-201, 212-215
  ELSE IF entered.attempt >= maxRetries                              \* 212-215
  THEN GcExhausted(entered, imageUrls)
  ELSE GcLoopTest([entered EXCEPT !.attempt = @ + 1],                \* 216
                  imageUrls, maxRetries)

GcStart(initialDelay) ==
  [pc |-> "running", attempt |-> 0, delay |-> initialDelay, calls |-> 0,
   claude |-> 0, waits |-> <<>>, last |-> NoOutcome, result |-> <<>>]

\* The whole call on a given sequence of upstream outcomes (outs is consumed
\* one outcome per iteration; it must be long enough: maxRetries + 1).
RECURSIVE GcRun(_, _, _, _)
GcRun(st, outs, imageUrls, maxRetries) ==
  IF st.pc # "running" \/ outs = <<>> THEN st
  ELSE GcRun(GcIteration(st, Head(outs), imageUrls, maxRetries),
             Tail(outs), imageUrls, maxRetries)

generateCaptions(imageUrls, outs) ==
  GcRun(GcStart(DefaultInitialDelay), outs, imageUrls, DefaultMaxRetries)

\* --------------------------------------------------- the call as a machine
UrlLists == { <<11, 12, 13, 14>>, <<21, 22, 23, 24>> }

GcInit ==
  /\ gcPc = "idle"
  /\ gcArgs = NoArgs
  /\ gcAttempt = 0
  /\ gcDelay = 0
  /\ gcCalls = 0
  /\ gcClaude = 0
  /\ gcWaits = <<>>
  /\ gcLast = NoOutcome
  /\ gcResult = <<>>

\* line 51: the initial delays a caller may pass
InitialDelays == {DefaultInitialDelay, DefaultInitialDelay \div 2}

GcCall ==
  /\ gcPc = "idle"
  /\ \E urls \in UrlLists, mr \in 0..MaxRetriesBound, initialDelay \in InitialDelays :
       /\ gcArgs' = [imageUrls |-> urls, maxRetries |-> mr, initialDelay |-> initialDelay]
       /\ gcDelay' = initialDelay        \* line 71
  /\ gcPc' = "running"
  /\ gcAttempt' = 0                      \* line 70
  /\ UNCHANGED <<gcCalls, gcClaude, gcWaits, gcLast, gcResult>>

GcAttempt ==
  /\ gcPc = "running"
  /\ \E o \in UpstreamOutcomes(gcArgs.imageUrls) :
       LET st == [pc |-> gcPc, attempt |-> gcAttempt, delay |-> gcDelay, calls |-> gcCalls,
                  claude |-> gcClaude, waits |-> gcWaits, last |-> gcLast, result |-> gcResult]
           nx == GcIteration(st, o, gcArgs.imageUrls, gcArgs.maxRetries)
       IN /\ gcPc' = nx.pc
          /\ gcAttempt' = nx.attempt
          /\ gcDelay' = nx.delay
          /\ gcCalls' = nx.calls
          /\ gcClaude' = nx.claude
          /\ gcWaits' = nx.waits
          /\ gcLast' = nx.last
          /\ gcResult' = nx.result
  /\ UNCHANGED gcArgs

(***************************************************************************)
(* invokeGeminiWithTool and the mock plan (google.ts 210-381)              *)
(***************************************************************************)

\* Identifiers and URLs are numbers: 1..9 are Gemini file identifiers, 101..
\* are local URLs, a negative number is an identifier that is not a string.
UnknownId == 9
NonStringId == -5

\* generateMockSlideShowResponse: three slideshows, one per theme, four
\* placeholder identifiers each, stamped with Date.now() (`now`).
MockThemes == <<"PMS", "Insomnia", "Anxiety">>

MockId(now, i, k) == 50000 + now * 1000 + i * 10 + k

generateMockSlideShowResponse(now) ==
  [shape |-> "slideshows", groups |-> <<>>,
   entries |-> [i \in 1..3 |->
                  [malformed |-> FALSE, theme |-> MockThemes[((i - 1) % 3) + 1],
                   images |-> [k \in 1..4 |-> MockId(now, i - 1, k)]]]]

\* What the Gemini call produced:
\*   [kind |-> "apierror"]  generateContent threw, or the response had no
\*                          candidate / no parts / an empty part / SAFETY
\*   [kind |-> "badtext"]   a text part that JSON.parse rejects
\*   [kind |-> "value", value |-> v]  function-call args or parsed text v
\* A value v is [shape, entries, groups]:
\*   nonobject  : null, undefined, a number or a string
\*   empty      : an object without `slideshows` (or with a non-array one)
\*   slideshows : an object whose `slideshows` is the array `entries`; an
\*                entry is [malformed, theme, images], malformed when it is
\*                not an object or has no `images` array
\*   themed     : an object whose `themed_slideshows` is the array `groups`
\*                and that has no `slideshows`; a group is [theme,
\*                hasSlideshows, slides], each slide its image list
NoValue == [shape |-> "nonobject", entries |-> <<>>, groups |-> <<>>]

invokeGeminiWithTool(upstream, now) ==
  IF upstream.kind = "value"
  THEN upstream.value                                  \* 309 / 323
  ELSE generateMockSlideShowResponse(now)              \* 329 / 353

(***************************************************************************)
(* The order handler, in its two versions                                  *)
(***************************************************************************)
Kinds == {"face", "faceless", "product"}

\* 37-40
hasAllTypesBug(files) ==
  \E kd \in Kinds : \E j \in 1..Len(files) : files[j].kind = kd

hasAllTypes(files) ==
  \A kd \in Kinds : \E j \in 1..Len(files) : files[j].kind = kd

\* identifierToUrlMap[identifier]: Object.fromEntries keeps the last entry of
\* a key; NULL when no file has the identifier or the file has no localUrl.
identifierToUrlMap(files, identifier) ==
  LET hits == { j \in 1..Len(files) : files[j].gid = identifier }
  IN IF hits = {} THEN NULL
     ELSE files[CHOOSE j \in hits : \A j2 \in hits : j2 <= j].localUrl

\* `identifierToUrlMap[identifier] || identifier`
MapIdentifier(files, identifier) ==
  IF identifierToUrlMap(files, identifier) # NULL
  THEN identifierToUrlMap(files, identifier)
  ELSE identifier

\* part_005 271-288: a non-string identifier becomes the string
\* `invalid_identifier:<json>` (numbered 90000 + its value)
InvalidIdentifier(identifier) == 90000 - identifier

MapIdentifierChecked(files, identifier) ==
  IF identifier < 0 THEN InvalidIdentifier(identifier)
  ELSE MapIdentifier(files, identifier)

RECURSIVE SelectSeq2(_, _)
SelectSeq2(seq, keep) ==
  IF seq = <<>> THEN <<>>
  ELSE IF keep[1] THEN <<Head(seq)>> \o SelectSeq2(Tail(seq), Tail(keep))
  ELSE SelectSeq2(Tail(seq), Tail(keep))

\* A response: the status, the `slideshows` member (<<>> when there is none),
\* the `error` member ("" when there is none) and the number of Gemini
\* calls the handler made before answering.
OrderResponse(status, slideshows, calls, error) ==
  [status |-> status, slideshows |-> slideshows, calls |-> calls, error |-> error]

\* 28: `!files || files.length === 0`
NoFilesBug(body) == body.filesGiven /\ Len(body.files) = 0

NoFiles(body) == ~body.filesGiven \/ Len(body.files) = 0

ErrNoFiles == "No files provided"
ErrTypes == "Need at least one image of each type (face, faceless, product)"
ErrFailed == "Failed to process order request."
ErrInvalid == "Gemini response was invalid"
ErrNoSlideshows == "No slideshows found in Gemini response."

\* part_005 296-297 (the filter)
validProcessed(processed, framesPerSlideshow) ==
  SelectSeq2(processed, [i \in 1..Len(processed) |->
                            /\ ~processed[i].error
                            /\ Len(processed[i].images) = framesPerSlideshow])

StripError(processed) ==
  [i \in 1..Len(processed) |-> [theme |-> processed[i].theme, images |-> processed[i].images]]

\* part_005 231-239: flatMap over the theme groups
RECURSIVE FlattenThemed(_)
FlattenThemed(groups) ==
  IF groups = <<>> THEN <<>>
  ELSE (IF Head(groups).hasSlideshows
        THEN [j \in 1..Len(Head(groups).slides) |->
                [malformed |-> FALSE, theme |-> Head(groups).theme,
                 images |-> Head(groups).slides[j]]]
        ELSE <<>>)
       \o FlattenThemed(Tail(groups))

\* unnamed/part_005: POST
OrderPart005(body, upstream, now) ==
  IF NoFiles(body) THEN OrderResponse(400, <<>>, 0, ErrNoFiles)                  \* 28-34
  ELSE IF ~body.filesGiven THEN OrderResponse(500, <<>>, 0, ErrFailed)  \* 38 throws, 305-313
  ELSE IF ~hasAllTypes(body.files) THEN OrderResponse(400, <<>>, 0, ErrTypes)     \* 42-48
  ELSE
    LET geminiResult == invokeGeminiWithTool(upstream, now)                       \* 199-205
        slideshows ==                                                             \* 227-242
          IF geminiResult.shape = "themed" THEN FlattenThemed(geminiResult.groups)
          ELSE geminiResult.entries
    IN
    IF geminiResult.shape = "nonobject" THEN OrderResponse(500, <<>>, 1, ErrInvalid) \* 218-224
    ELSE IF geminiResult.shape \notin {"slideshows", "themed"}
    THEN OrderResponse(500, <<>>, 1, ErrInvalid)                                  \* 243-249
    ELSE IF Len(slideshows) = 0 THEN OrderResponse(500, <<>>, 1, ErrNoSlideshows) \* 251-257
    ELSE
      LET
          processedSlideshows ==                                                  \* 265-294
            [i \in 1..Len(slideshows) |->
               IF slideshows[i].malformed
               THEN [theme |-> slideshows[i].theme, images |-> <<>>, error |-> TRUE]
               ELSE [theme |-> slideshows[i].theme,
                     images |-> [k \in 1..Len(slideshows[i].images) |->
                                   MapIdentifierChecked(body.files, slideshows[i].images[k])],
                     error |-> FALSE]]
      IN OrderResponse(200,
                       StripError(validProcessed(processedSlideshows, body.framesPerSlideshow)),
                       1, "")                                                     \* 297-303

\* src/app/api/order/route.ts: POST
OrderRoute(body, upstream, now) ==
  IF NoFiles(body) THEN OrderResponse(400, <<>>, 0, ErrNoFiles)                  \* 28-34
  ELSE IF ~body.filesGiven THEN OrderResponse(500, <<>>, 0, ErrFailed)  \* 38 throws, 210-218
  ELSE IF ~hasAllTypes(body.files) THEN OrderResponse(400, <<>>, 0, ErrTypes)     \* 42-48
  ELSE
    LET geminiResult == invokeGeminiWithTool(upstream, now)                       \* 177-183
    IN
    IF geminiResult.shape # "slideshows"
    THEN OrderResponse(500, <<>>, 1, ErrFailed)                          \* 191-194, 210-218
    ELSE IF \E i \in 1..Len(geminiResult.entries) : geminiResult.entries[i].malformed
    THEN OrderResponse(500, <<>>, 1, ErrFailed)      \* 204: `.images.map` throws, 210-218
    ELSE OrderResponse(200,
           [i \in 1..Len(geminiResult.entries) |->                                \* 202-205
              [theme |-> geminiResult.entries[i].theme,
               images |-> [k \in 1..Len(geminiResult.entries[i].images) |->
                             MapIdentifier(body.files, geminiResult.entries[i].images[k])]]],
           1, "")

OrderHandler(version, body, upstream, now) ==
  IF version = "part005" THEN OrderPart005(body, upstream, now)
  ELSE OrderRoute(body, upstream, now)

\* ------------------------------------------- the order handler as a machine
\* The uploaded files of a request: [kind, gid, localUrl, blobUrl].  A file
\* registered by the upload handler (upload/route.ts 96-114) has a localUrl;
\* one registered by process-uploads (migrate/route.ts 92-99) has a blobUrl
\* and no localUrl.
FileFace == [kind |-> "face", gid |-> 1, localUrl |-> 101, blobUrl |-> NULL]
FileFaceless == [kind |-> "faceless", gid |-> 2, localUrl |-> 102, blobUrl |-> NULL]
FileProduct == [kind |-> "product", gid |-> 3, localUrl |-> 103, blobUrl |-> NULL]
FileBlobOnly == [kind |-> "product", gid |-> 3, localUrl |-> NULL, blobUrl |-> 203]

\* the URL under which a file can be fetched
FileUrl(file) == IF file.localUrl # NULL THEN file.localUrl ELSE file.blobUrl

FileLists ==
  { <<>>,
    <<FileFace, FileFaceless>>,
    <<FileFace, FileFaceless, FileProduct>>,
    <<FileFace, FileFaceless, FileBlobOnly>> }

ThemeLists == { <<>>, <<"PMS">>, <<"PMS", "Insomnia">> }

FrameChoices == { RequiredImages - 1, RequiredImages }

\* filesGiven is FALSE for a body without a `files` member (files is then <<>>)
OrderBodies ==
  { b \in [filesGiven : BOOLEAN, files : FileLists, themes : ThemeLists,
           slideshowsPerTheme : 1..MaxPerTheme, framesPerSlideshow : FrameChoices] :
      b.filesGiven \/ b.files = <<>> }

\* Entries the model may put in its plan
PlanEntries ==
  { [malformed |-> FALSE, theme |-> "PMS", images |-> <<1, 2, 2, 3>>],
    [malformed |-> FALSE, theme |-> "Insomnia", images |-> <<1, 2, 3>>],
    [malformed |-> FALSE, theme |-> "PMS", images |-> <<1, UnknownId, NonStringId, 3>>],
    [malformed |-> TRUE, theme |-> "Anxiety", images |-> <<>>] }

RECURSIVE SeqsUpTo(_, _)
SeqsUpTo(S, n) ==
  IF n = 0 THEN { <<>> }
  ELSE SeqsUpTo(S, n - 1) \cup
       { Append(q, x) : q \in { q2 \in SeqsUpTo(S, n - 1) : Len(q2) = n - 1 }, x \in S }

ThemeGroups ==
  { [theme |-> "PMS", hasSlideshows |-> TRUE, slides |-> << <<1, 2, 2, 3>>, <<3, 2, 1>> >>],
    [theme |-> "Insomnia", hasSlideshows |-> TRUE, slides |-> << <<1, 2, 2, 3>> >>],
    [theme |-> "Anxiety", hasSlideshows |-> FALSE, slides |-> <<>>] }

GeminiValues ==
  { NoValue, [shape |-> "empty", entries |-> <<>>, groups |-> <<>>] }
  \cup { [shape |-> "slideshows", entries |-> e, groups |-> <<>>] :
           e \in SeqsUpTo(PlanEntries, MaxPlanLen) }
  \cup { [shape |-> "themed", entries |-> <<>>, groups |-> g] :
           g \in SeqsUpTo(ThemeGroups, 2) }

GeminiUpstreams ==
  { [kind |-> k, value |-> NoValue] : k \in {"apierror", "badtext"} }
  \cup { [kind |-> "value", value |-> v] : v \in GeminiValues }

Clock == 1..2

NoBody == [filesGiven |-> FALSE, files |-> <<>>, themes |-> <<>>, slideshowsPerTheme |-> 0,
           framesPerSlideshow |-> 0]
NoUpstream == [kind |-> "none", value |-> NoValue]
NoResponse == OrderResponse(0, <<>>, 0, "")
NoPrev == [set |-> FALSE, version |-> "none", upstream |-> NoUpstream, now |-> 0,
           resp |-> NoResponse]

\* What Gemini may produce for a request that is submitted a second time
ResubmitUpstreams ==
  { [kind |-> k, value |-> NoValue] : k \in {"apierror", "badtext"} }
  \cup { [kind |-> "value", value |-> [shape |-> "empty", entries |-> <<>>, groups |-> <<>>]],
         [kind |-> "value",
          value |-> [shape |-> "slideshows", groups |-> <<>>,
                     entries |-> << [malformed |-> FALSE, theme |-> "PMS",
                                     images |-> <<1, 2, 2, 3>>] >>]] }

OrdInit ==
  /\ ordVersion = "none"
  /\ ordBody = NoBody
  /\ ordUpstream = NoUpstream
  /\ ordResp = NoResponse
  /\ ordNow = 0
  /\ ordPrev = NoPrev

\* an order request arrives with its body
OrderArrives ==
  /\ ordVersion = "none"
  /\ ordBody = NoBody
  /\ \E body \in OrderBodies : ordBody' = body
  /\ UNCHANGED <<ordVersion, ordUpstream, ordResp, ordNow, ordPrev>>

\* The request is served by handler `version`: the clock does not run
\* backwards between two requests, and ordUpstream records what the Gemini
\* call produced if the handler got as far as making it.
OrderServed(version) ==
  /\ ordVersion = "none"
  /\ ordBody # NoBody
  /\ ordPrev.set => ordPrev.version = version
  /\ \E up \in (IF ordPrev.set THEN ResubmitUpstreams ELSE GeminiUpstreams),
        now \in { t \in Clock : t >= ordPrev.now } :
       LET resp == OrderHandler(version, ordBody, up, now)
       IN /\ ordUpstream' = IF resp.calls = 0 THEN NoUpstream ELSE up
          /\ ordResp' = resp
          /\ ordNow' = now
  /\ ordVersion' = version
  /\ UNCHANGED <<ordBody, ordPrev>>

\* the request is served by src/app/api/order/route.ts
OrderRoutePOST == OrderServed("route")

\* the request is served by unnamed/part_005
OrderPart005POST == OrderServed("part005")

\* the client submits the same request once more
OrderResubmit ==
  /\ ordVersion # "none"
  /\ ~ordPrev.set
  /\ ordPrev' = [set |-> TRUE, version |-> ordVersion, upstream |-> ordUpstream,
                 now |-> ordNow, resp |-> ordResp]
  /\ ordVersion' = "none"
  /\ ordUpstream' = NoUpstream
  /\ ordResp' = NoResponse
  /\ ordNow' = 0
  /\ UNCHANGED ordBody

(***************************************************************************)
(* The caption handler (unnamed/part_008)                                  *)
(***************************************************************************)
\* 23-30: a URL that starts with "http" is used as is, any other is prefixed
\* with the base URL (numbers from 200000 on are absolute URLs).
AbsoluteBase == 200000

AbsoluteUrl(url) == IF url >= AbsoluteBase THEN url ELSE AbsoluteBase + url

\* POST: `outs` is the sequence of upstream outcomes generateCaptions meets;
\* `claude` counts the claude.messages.create calls made for the request
CaptionHandlerBug(slide, outs) ==
  LET imageUrls == [k \in 1..Len(slide.images) |-> AbsoluteUrl(slide.images[k])]
      call == generateCaptions(imageUrls, outs)
  IN IF call.pc = "returned"
     THEN [status |-> 200, captions |-> call.result, claude |-> call.claude]
     ELSE [status |-> 500, captions |-> <<>>, claude |-> call.claude]

CaptionHandler(slide, outs) ==
  IF Len(slide.images) # RequiredImages
  THEN [status |-> 400, captions |-> <<>>, claude |-> 0]                   \* 11-16
  ELSE LET imageUrls == [k \in 1..Len(slide.images) |-> AbsoluteUrl(slide.images[k])]
           call == generateCaptions(imageUrls, outs)                       \* 33-37
       IN IF call.pc = "returned"
          THEN [status |-> 200, captions |-> call.result, claude |-> call.claude]  \* 39
          ELSE [status |-> 500, captions |-> <<>>, claude |-> call.claude]         \* 41-46

\* Batch requests are explored either one in isolation (the other requests
\* are "off") or all overlapping; the overlapping runs use fewer inputs.
Overlapping == \A r \in DOMAIN reqPc : reqPc[r] # "off"

\* Upstream behaviours a caption call of the batch may meet (`shared`: the
\* run overlaps with another one).
CaptionRuns(slide, shared) ==
  LET urls == [k \in 1..Len(slide.images) |-> AbsoluteUrl(slide.images[k])]
      J(c, has) == [kind |-> "json", hasCaptions |-> has, captions |-> c, retryAfter |-> NoHeader]
      E(k, h) == [kind |-> k, hasCaptions |-> FALSE, captions |-> <<>>, retryAfter |-> h]
      good == J(ModelCaptionsFor(urls), TRUE)
      long == J(Append(ModelCaptionsFor(urls), 1000), TRUE)
  IN IF shared
     THEN { <<good>>, <<E("e404", NoHeader)>> }
     ELSE { <<good>>,
            <<long, E("r429", NoHeader), good>>,
            <<long, long, long>>,
            <<E("r429", 3), E("r429", NoHeader), E("r429", NaNHeader)>>,
            <<E("badjson", NoHeader), E("fetchfail", NoHeader), E("apierr", NoHeader)>>,
            <<E("e404", NoHeader)>> }

(***************************************************************************)
(* The batch handler and its SSE helpers (migrate/route.ts 301-565)        *)
(***************************************************************************)
Requests == {1, 2}

\* The SSE state is handled as one record while a handler step runs:
\*   ctrl     globalThis.streamController: NULL or the controller of the
\*            stream created by request `ctrl`
\*   streams  the events enqueued on each request's stream
\*   closed   whether controller.close() was called on it, and by whom
SSE == [ctrl |-> streamController, streams |-> streams,
        closed |-> streamClosed, closedBy |-> closedBy]

\* 309-325
createSSEResponse(sse, r) == [sse EXCEPT !.ctrl = r]

\* 328-335
sendSSEEvent(sse, ev) ==
  IF sse.ctrl = NULL THEN sse
  ELSE [sse EXCEPT !.streams[sse.ctrl] = Append(@, ev)]

\* 338-344
closeSSEStreamBug(sse, r) ==
  IF sse.ctrl = NULL THEN sse
  ELSE [sse EXCEPT !.closed[sse.ctrl] = TRUE, !.closedBy[sse.ctrl] = r]

closeSSEStream(sse, r) ==
  IF sse.ctrl = NULL THEN sse
  ELSE [sse EXCEPT !.closed[sse.ctrl] = TRUE, !.closedBy[sse.ctrl] = r, !.ctrl = NULL]

SetSSE(sse) ==
  /\ streamController' = sse.ctrl
  /\ streams' = sse.streams
  /\ streamClosed' = sse.closed
  /\ closedBy' = sse.closedBy

StatusEvent(r, progress) ==
  [type |-> "status", progress |-> progress, by |-> r, slideshows |-> <<>>, id |-> NULL]
CompleteEvent(r, slideshows, id) ==
  [type |-> "complete", progress |-> -1, by |-> r, slideshows |-> slideshows, id |-> id]
ErrorEvent(r) ==
  [type |-> "error", progress |-> -1, by |-> r, slideshows |-> <<>>, id |-> NULL]

\* 432: 40 + Math.floor((index / total) * 50), index counted from 0.  The
\* code computes the quotient in double precision; division, multiplication
\* and floor are all monotone in index there as they are here.
TaskProgressBug(index, total) == 40 + (((index + 1) * 60) \div total)

TaskProgress(index, total) == 40 + ((index * 50) \div total)

\* 425: pLimit(3) (the earlier version of the handler, line 221, had pLimit(5))
pLimitConcurrencyBug == 5

pLimitConcurrency == 3

\* 460-464: what a caption task returns
TaskReturn(slide, captions) ==
  [filled |-> TRUE, theme |-> slide.theme, images |-> slide.images, captions |-> captions]

EmptySlot == [filled |-> FALSE, theme |-> "", images |-> <<>>, captions |-> <<>>]

\* 469: Promise.all keeps the result of promise i at position i
FirstFree(settled) == CHOOSE j \in 1..Len(settled) :
                        /\ ~settled[j].filled
                        /\ \A j2 \in 1..(j - 1) : settled[j2].filled

PromiseAllStoreBug(settled, i, value) == [settled EXCEPT ![FirstFree(settled)] = value]

PromiseAllStore(settled, i, value) == [settled EXCEPT ![i] = value]

Slideshows(settled) ==
  [i \in 1..Len(settled) |->
     [theme |-> settled[i].theme, images |-> settled[i].images, captions |-> settled[i].captions]]

\* p-limit: the queued task that runs next is the oldest one
Queued(ts) == { j \in 1..Len(ts) : ts[j] = "queued" }
Running(ts) == { j \in 1..Len(ts) : ts[j] = "running" }
NextQueued(ts) == CHOOSE j \in Queued(ts) : \A j2 \in Queued(ts) : j <= j2

\* The batch bodies explored
FullFiles == <<FileFace, FileFaceless, FileProduct>>

BatchBodies(shared) ==
  IF shared
  THEN { [filesGiven |-> TRUE, files |-> FullFiles, themes |-> <<"PMS">>, slideshowsPerTheme |-> 2,
          framesPerSlideshow |-> RequiredImages] }
  ELSE
  { [filesGiven |-> TRUE, files |-> FullFiles, themes |-> <<"PMS">>, slideshowsPerTheme |-> 2,
     framesPerSlideshow |-> RequiredImages],
    [filesGiven |-> TRUE, files |-> FullFiles, themes |-> <<"PMS">>, slideshowsPerTheme |-> 2,
     framesPerSlideshow |-> RequiredImages - 1],
    [filesGiven |-> TRUE, files |-> <<>>, themes |-> <<"PMS">>, slideshowsPerTheme |-> 2,
     framesPerSlideshow |-> RequiredImages] }

\* Plans the ordering model may return to a batch run: n entries that
\* alternate between two four-image slideshows, entry k (if any) cut to three.
EntryA == [malformed |-> FALSE, theme |-> "PMS", images |-> <<1, 2, 2, 3>>]
EntryB == [malformed |-> FALSE, theme |-> "Insomnia", images |-> <<1, 2, 3, 3>>]
EntryShort == [malformed |-> FALSE, theme |-> "Anxiety", images |-> <<1, 2, 3>>]

BatchPlan(n, k) ==
  [shape |-> "slideshows", groups |-> <<>>,
   entries |-> [i \in 1..n |-> IF i = k THEN EntryShort
                               ELSE IF i % 2 = 1 THEN EntryA ELSE EntryB]]

\* while a second request is being served the plans are kept shorter and the
\* three-entry mock plan is left out
PlanBound(shared) == IF shared THEN MaxSlidesShared ELSE MaxSlides

\* the shortest plan with which a caption task is still queued once another
\* one has failed and the limiter has started the task after it
LongPlanLen == pLimitConcurrency + 2

BatchUpstreams(shared) ==
  (IF shared THEN {}
   ELSE { [kind |-> "apierror", value |-> NoValue],
          [kind |-> "value", value |-> BatchPlan(LongPlanLen, 0)] })
  \cup { [kind |-> "value", value |-> [shape |-> "empty", entries |-> <<>>, groups |-> <<>>]] }
  \cup { [kind |-> "value", value |-> BatchPlan(n, k)] :
           n \in 0..PlanBound(shared), k \in 0..PlanBound(shared) }

\* Environment variables and the modules that read them when they load:
\*   google.ts 9-11     throws without GEMINI_API_KEY
\*   anthropic.ts 4-6   throws without ANTHROPIC_API_KEY
\*   db.ts 5-13         logs without DATABASE_URL (the throw is commented
\*                      out) and calls createPool, which takes POSTGRES_URL
\*                      when it is given no connection string and throws
\*                      when that is not set either
EnvVars == {"GEMINI_API_KEY", "ANTHROPIC_API_KEY", "DATABASE_URL", "POSTGRES_URL"}

ModuleLoads(m, e) ==
  IF m = "google" THEN "GEMINI_API_KEY" \in e
  ELSE IF m = "anthropic" THEN "ANTHROPIC_API_KEY" \in e
  ELSE "DATABASE_URL" \in e \/ "POSTGRES_URL" \in e

\* the modules each route imports (migrate/route.ts 304-306, part_005 2,
\* part_008 2)
RouteModules(route) ==
  IF route = "batch" THEN {"google", "db"}
  ELSE IF route = "order" THEN {"google"}
  ELSE {"anthropic"}

RouteLoads(route, e) == \A m \in RouteModules(route) : ModuleLoads(m, e)

\* 405: orderRes.ok
OrderOkBug(orderRes) == TRUE

OrderOk(orderRes) == orderRes.status \in 200..299

\* 469: Promise.all rejects with the first rejection and is fulfilled once
\* every promise is
PromiseAllStateBug(ts) ==
  IF \E j \in 1..Len(ts) : ts[j] = "failed" THEN "rejected"
  ELSE IF \E j \in 1..Len(ts) : ts[j] = "ok" THEN "fulfilled"
  ELSE "pending"

PromiseAllState(ts) ==
  IF \E j \in 1..Len(ts) : ts[j] = "failed" THEN "rejected"
  ELSE IF \A j \in 1..Len(ts) : ts[j] = "ok" THEN "fulfilled"
  ELSE "pending"

BatchInitCommon ==
  /\ reqBody = [r \in Requests |-> NoBody]
  /\ streamController = NULL
  /\ streams = [r \in Requests |-> <<>>]
  /\ streamClosed = [r \in Requests |-> FALSE]
  /\ closedBy = [r \in Requests |-> NULL]
  /\ orderData = [r \in Requests |-> <<>>]
  /\ task = [r \in Requests |-> <<>>]
  /\ results = [r \in Requests |-> <<>>]
  /\ capReturned = [r \in Requests |-> <<>>]
  /\ httpResponse = [r \in Requests |-> "none"]
  /\ deleteCalls = [r \in Requests |-> <<>>]
  /\ dbRows = <<>>
  /\ orderStatus = [r \in Requests |-> 0]
  /\ saveCalls = [r \in Requests |-> <<>>]
  /\ clientGone = [r \in Requests |-> FALSE]

\* 346-353: the request arrives, the stream is created, the body is being read
BatchReceive(r) ==
  /\ reqPc[r] = "idle"
  /\ RouteLoads("batch", env)
  /\ reqPc' = [reqPc EXCEPT ![r] = "parse"]
  /\ SetSSE(createSSEResponse(SSE, r))
  /\ UNCHANGED <<reqBody, orderData, task, results, capReturned, httpResponse,
                 deleteCalls, dbRows, orderStatus, saveCalls, clientGone, env>>

\* the route's module could not be loaded: the handler never runs
BatchLoadFails(r) ==
  /\ reqPc[r] = "idle"
  /\ ~RouteLoads("batch", env)
  /\ reqPc' = [reqPc EXCEPT ![r] = "done"]
  /\ httpResponse' = [httpResponse EXCEPT ![r] = "loaderror"]
  /\ UNCHANGED <<reqBody, streamController, streams, streamClosed, closedBy, orderData,
                 task, results, capReturned, deleteCalls, dbRows, orderStatus, saveCalls,
                 clientGone, env>>

\* 552-557: what the catch block returns in place of `response`, the stream
\* response created at 352
CatchResponseBug(response) == response

CatchResponse(response) == "json500"

\* 542-564: catch and finally
CatchFinally(sse, r) == closeSSEStream(sendSSEEvent(sse, ErrorEvent(r)), r)

\* 358-403: the body is parsed, status 0 and 10 are sent, the order call is issued
BatchParsed(r) ==
  /\ reqPc[r] = "parse"
  /\ \E body \in BatchBodies(Overlapping) :
       /\ reqBody' = [reqBody EXCEPT ![r] = body]
       /\ reqPc' = [reqPc EXCEPT ![r] = "order"]
       /\ SetSSE(sendSSEEvent(sendSSEEvent(SSE, StatusEvent(r, 0)), StatusEvent(r, 10)))
  /\ UNCHANGED <<orderData, task, results, capReturned, httpResponse, deleteCalls, dbRows,
                 orderStatus, saveCalls, clientGone, env>>

\* 358 throws (the body is not JSON): catch, finally
BatchParseFails(r) ==
  /\ reqPc[r] = "parse"
  /\ reqPc' = [reqPc EXCEPT ![r] = "done"]
  /\ httpResponse' = [httpResponse EXCEPT ![r] = CatchResponse("stream")]
  /\ SetSSE(CatchFinally(SSE, r))
  /\ UNCHANGED <<reqBody, orderData, task, results, capReturned, deleteCalls, dbRows,
                 orderStatus, saveCalls, clientGone, env>>

\* 471-505 as far as the next await: status 95, the deletions are issued;
\* with no file to delete the handler goes on to status 95 and the insert
AfterCaptions(sse, r) ==
  IF Len(reqBody[r].files) = 0
  THEN [sse |-> sendSSEEvent(sendSSEEvent(sse, StatusEvent(r, 95)), StatusEvent(r, 95)),
        pc |-> "save"]
  ELSE [sse |-> sendSSEEvent(sse, StatusEvent(r, 95)), pc |-> "cleanup"]

\* the tasks p-limit starts right away: the first pLimitConcurrency ones,
\* each sending its status event as it starts (427-433)
RECURSIVE StartEvents(_, _, _, _, _)
StartEvents(sse, r, from, to, total) ==
  IF from > to THEN sse
  ELSE StartEvents(sendSSEEvent(sse, StatusEvent(r, TaskProgress(from - 1, total))),
                   r, from + 1, to, total)

Min(a, b) == IF a < b THEN a ELSE b

\* 391-410: what the order handler, in either version, may answer to each
\* body of a batch run
OrderTable ==
  [shared \in BOOLEAN |->
     [body \in BatchBodies(shared) |->
        { OrderHandler(version, body, up, 1) :
            version \in {"route", "part005"}, up \in BatchUpstreams(shared) }]]

\* the slides a batch run may hand to the caption handler
BatchSlides ==
  [shared \in BOOLEAN |->
     UNION { { ans.slideshows[i] : i \in 1..Len(ans.slideshows) } :
             ans \in UNION { OrderTable[shared][body] : body \in BatchBodies(shared) } }]

\* 441-458: what the caption handler may answer for each of them
CaptionTable ==
  [shared \in BOOLEAN |->
     [slide \in BatchSlides[shared] |->
        { [status |-> res.status, captions |-> res.captions] :
            res \in { CaptionHandler(slide, outs) : outs \in CaptionRuns(slide, shared) } }]]

\* 391-403: the answers the order call may get: those of the order handler,
\* or the framework's 500 when the order route cannot be loaded
OrderAnswers(body, e, shared) ==
  IF RouteLoads("order", e)
  THEN OrderTable[shared][body]
  ELSE { OrderResponse(500, <<>>, 0, "") }

\* 441-458: the answers a caption call may get: the fetch throws, the
\* caption route cannot be loaded, or the caption handler answers
CaptionAnswers(slide, e, shared) ==
  { [status |-> 500, captions |-> <<>>] }
  \cup (IF RouteLoads("caption", e) THEN CaptionTable[shared][slide] ELSE {})

\* 405-469: the order call returns
OrderReturns(r) ==
  /\ reqPc[r] = "order"
  /\ \E orderRes \in OrderAnswers(reqBody[r], env, Overlapping) :
       /\ orderStatus' = [orderStatus EXCEPT ![r] = orderRes.status]
       /\ IF ~OrderOk(orderRes)
          THEN /\ reqPc' = [reqPc EXCEPT ![r] = "done"]                       \* 405-408
               /\ httpResponse' = [httpResponse EXCEPT ![r] = CatchResponse("stream")]
               /\ SetSSE(CatchFinally(SSE, r))
               /\ UNCHANGED <<orderData, task, results, capReturned>>
          ELSE
            LET n == Len(orderRes.slideshows)
                first == Min(n, pLimitConcurrency)
                sse1 == sendSSEEvent(sendSSEEvent(SSE, StatusEvent(r, 30)), StatusEvent(r, 40))
            IN
            /\ orderData' = [orderData EXCEPT ![r] = orderRes.slideshows]     \* 410
            /\ task' = [task EXCEPT ![r] =
                          [i \in 1..n |-> IF i <= first THEN "running" ELSE "queued"]]
            /\ results' = [results EXCEPT ![r] = [i \in 1..n |-> EmptySlot]]
            /\ capReturned' = [capReturned EXCEPT ![r] = [i \in 1..n |-> <<>>]]
            /\ LET sse2 == StartEvents(sse1, r, 1, first, n)
                   cont == AfterCaptions(sse2, r)
               IN IF n = 0
                  THEN /\ SetSSE(cont.sse)
                       /\ reqPc' = [reqPc EXCEPT ![r] = cont.pc]
                  ELSE /\ SetSSE(sse2)
                       /\ reqPc' = [reqPc EXCEPT ![r] = "captions"]
            /\ UNCHANGED httpResponse
  /\ UNCHANGED <<reqBody, deleteCalls, dbRows, saveCalls, clientGone, env>>

\* 441-466 for task i, then p-limit's next(), then whatever the handler does
\* once Promise.all settles (469 and on, or catch/finally).  All of it runs
\* in microtasks of the same turn: p-limit resumes one tick after the task
\* settles and starts the oldest queued task, whose first statement sends its
\* status event; the handler's await resumes after that.  A caption call
\* fails when the handler answers 400 or 500, or when the fetch itself throws.
TaskFinish(r, i) ==
  /\ i \in 1..Len(task[r])
  /\ task[r][i] = "running"
  /\ \E captionRes \in CaptionAnswers(orderData[r][i], env, Overlapping) :
       LET slide == orderData[r][i]
           n == Len(orderData[r])
           ok == captionRes.status = 200                                        \* 453
           ts1 == [task[r] EXCEPT ![i] = IF ok THEN "ok" ELSE "failed"]
           hasNext == Queued(ts1) # {}
           ts2 == IF hasNext THEN [ts1 EXCEPT ![NextQueued(ts1)] = "running"] ELSE ts1
           sse1 == IF hasNext
                   THEN sendSSEEvent(SSE, StatusEvent(r, TaskProgress(NextQueued(ts1) - 1, n)))
                   ELSE SSE
           cont == AfterCaptions(sse1, r)
           all == PromiseAllState(ts2)
       IN
       /\ task' = [task EXCEPT ![r] = ts2]
       /\ results' = [results EXCEPT ![r] =
                        IF ok THEN PromiseAllStore(@, i, TaskReturn(slide, captionRes.captions))
                        ELSE @]
       /\ capReturned' = [capReturned EXCEPT ![r][i] = captionRes.captions]
       /\ IF reqPc[r] = "captions" /\ all = "rejected"
          THEN /\ reqPc' = [reqPc EXCEPT ![r] = "done"]                         \* 542-564
               /\ httpResponse' = [httpResponse EXCEPT ![r] = CatchResponse("stream")]
               /\ SetSSE(CatchFinally(sse1, r))
          ELSE IF reqPc[r] = "captions" /\ all = "fulfilled"
          THEN /\ reqPc' = [reqPc EXCEPT ![r] = cont.pc]                        \* 469-475
               /\ SetSSE(cont.sse)
               /\ UNCHANGED httpResponse
          ELSE /\ SetSSE(sse1)
               /\ UNCHANGED <<reqPc, httpResponse>>
  /\ UNCHANGED <<reqBody, orderData, deleteCalls, dbRows, orderStatus, saveCalls,
                 clientGone, env>>

\* google.ts 200-206: how a deleteGeminiFile call may end; it returns in
\* both cases
DeleteOutcomes == {"deleted", "failed"}

\* how the n deletions of a run may end; while a second request is being
\* served only the runs whose deletions all succeed are explored
DeleteRuns(n, shared) ==
  IF shared THEN { [j \in 1..n |-> "deleted"] } ELSE [1..n -> DeleteOutcomes]

\* 494-505: what the handler does once every deleteGeminiFile call has
\* settled: no failure reaches it (google.ts 202-206, and 486-489, 496-499)
AfterCleanupBug(sse, r, outcomes) ==
  IF \E j \in 1..Len(outcomes) : outcomes[j] = "failed"
  THEN [sse |-> CatchFinally(sse, r), pc |-> "done", response |-> CatchResponse("stream")]
  ELSE [sse |-> sendSSEEvent(sse, StatusEvent(r, 95)), pc |-> "save", response |-> "none"]

AfterCleanup(sse, r, outcomes) ==
  [sse |-> sendSSEEvent(sse, StatusEvent(r, 95)), pc |-> "save", response |-> "none"]

\* 478-505: deleteGeminiFile was called for every file of the request (481)
\* and every call has settled; status 95 is sent and the insert is issued
CleanupFinish(r) ==
  /\ reqPc[r] = "cleanup"
  /\ \E outcomes \in DeleteRuns(Len(reqBody[r].files), Overlapping) :
       LET after == AfterCleanup(SSE, r, outcomes)
       IN /\ deleteCalls' = [deleteCalls EXCEPT ![r] =
                               [j \in 1..Len(reqBody[r].files) |->
                                  [id |-> reqBody[r].files[j].gid, outcome |-> outcomes[j]]]]
          /\ reqPc' = [reqPc EXCEPT ![r] = after.pc]
          /\ httpResponse' = [httpResponse EXCEPT ![r] = after.response]
          /\ SetSSE(after.sse)
  /\ UNCHANGED <<reqBody, orderData, task, results, capReturned, dbRows,
                 orderStatus, saveCalls, clientGone, env>>

\* 523-540 and 558-564: what the handler does once saveGeneration has
\* settled: a rejection is caught at 523 and the run goes on
AfterSaveBug(sse, r, outcome, slideshows, generationId) ==
  IF outcome = "saved"
  THEN [sse |-> closeSSEStream(
                  sendSSEEvent(sendSSEEvent(sse, StatusEvent(r, 100)),
                               CompleteEvent(r, slideshows, generationId)), r),
        response |-> "stream"]
  ELSE [sse |-> CatchFinally(sse, r), response |-> "json500"]

AfterSave(sse, r, outcome, slideshows, generationId) ==
  [sse |-> closeSSEStream(
             sendSSEEvent(sendSSEEvent(sse, StatusEvent(r, 100)),             \* 529-532
                          CompleteEvent(r, slideshows, generationId)), r),    \* 535-538, 562
   response |-> "stream"]                                                     \* 540

\* 508-540 and 558-564: saveGeneration settles (db.ts 81-102): the row is
\* inserted and its id returned, or the row is inserted and no id comes
\* back, or the insert fails; in the last two cases saveGeneration throws
\* and generationId stays undefined
SaveFinish(r) ==
  /\ reqPc[r] = "save"
  /\ \E outcome \in {"saved", "noid", "failed"} :
       LET slideshows == Slideshows(results[r])
           generationId == IF outcome = "saved" THEN Len(dbRows) + 1 ELSE NULL
           after == AfterSave(SSE, r, outcome, slideshows, generationId)
       IN /\ dbRows' = IF outcome = "failed" THEN dbRows
                       ELSE Append(dbRows, [by |-> r, slideshows |-> slideshows])
          /\ saveCalls' = [saveCalls EXCEPT ![r] = Append(@, outcome)]
          /\ SetSSE(after.sse)
          /\ httpResponse' = [httpResponse EXCEPT ![r] = after.response]
  /\ reqPc' = [reqPc EXCEPT ![r] = "done"]
  /\ UNCHANGED <<reqBody, orderData, task, results, capReturned, deleteCalls, orderStatus,
                 clientGone, env>>

\* 346-565: the handler never reads request.signal and registers no cancel
\* callback on its stream, so a disconnect leaves its tasks as they are
DisconnectEffectBug(ts) ==
  [i \in 1..Len(ts) |-> IF ts[i] \in {"queued", "running"} THEN "failed" ELSE ts[i]]

DisconnectEffect(ts) == ts

\* the client of a running request goes away (settings/page.tsx 100-145 is
\* the reader of the response)
ClientDisconnect(r) ==
  /\ reqPc[r] \notin {"off", "idle", "done"}
  /\ ~clientGone[r]
  /\ clientGone' = [clientGone EXCEPT ![r] = TRUE]
  /\ task' = [task EXCEPT ![r] = DisconnectEffect(@)]
  /\ UNCHANGED <<reqPc, reqBody, streamController, streams, streamClosed, closedBy,
                 orderData, results, capReturned, httpResponse, deleteCalls, dbRows,
                 orderStatus, saveCalls, env>>

(***************************************************************************)
(* process-uploads (migrate/route.ts 58-124) and uploadFileToGeminiFromUrl *)
(* (google.ts 63-163)                                                      *)
(***************************************************************************)
upVars == <<upPc, upBody, upIndex, processedFiles, upResp, ufPc, tempFilePath, ufResult,
            tmpDir, ufTrace>>

\* The blobs a client may list (history/page.tsx 221-275): [kind, blobUrl]
Blobs == { [kind |-> "face", blobUrl |-> 201],
           [kind |-> "faceless", blobUrl |-> 202],
           [kind |-> "product", blobUrl |-> 203] }

\* The bodies explored: one that is not JSON, the JSON value null, and the
\* blob lists of up to MaxBlobs entries
UploadBodies ==
  { [shape |-> sh, blobs |-> <<>>] : sh \in {"notjson", "null"} }
  \cup { [shape |-> "list", blobs |-> b] : b \in SeqsUpTo(Blobs, MaxBlobs) }

NoUploadBody == [shape |-> "none", blobs |-> <<>>]

\* 92-99: the entry pushed for a registered blob; the name Gemini gives the
\* file is numbered after the blob
FileOfBlob(blob) ==
  [kind |-> blob.kind, gid |-> blob.blobUrl - 200, localUrl |-> NULL, blobUrl |-> blob.blobUrl]

UploadResponse(status, files) == [status |-> status, files |-> files]

\* 106-115
UploadsAnswerBug(blobs, processed) ==
  IF Len(processed) < Len(blobs) THEN UploadResponse(500, <<>>)
  ELSE UploadResponse(200, processed)

UploadsAnswer(blobs, processed) ==
  IF Len(processed) = 0 THEN UploadResponse(500, <<>>)
  ELSE UploadResponse(200, processed)

\* 149: `if (tempFilePath)`, on the way out of the function whatever the result
NeedsCleanupBug(path, result) == path # NULL /\ result = "returned"

NeedsCleanup(path, result) == path # NULL

\* 147-162: where the function stands after the synchronous part of its
\* finally block: awaiting unlink, or out
UfFinally(path, result, dir) ==
  IF NeedsCleanup(path, result) /\ path \in dir THEN "unlink" ELSE "out"

NoTrace == [written |-> FALSE, upload |-> "none", unlink |-> "none"]

UpInit ==
  /\ upPc = "idle"
  /\ upBody = NoUploadBody
  /\ upIndex = 0
  /\ processedFiles = <<>>
  /\ upResp = UploadResponse(0, <<>>)
  /\ ufPc = "idle"
  /\ tempFilePath = NULL
  /\ ufResult = "none"
  /\ tmpDir = {}
  /\ ufTrace = <<>>

\* 62-83: the request arrives; it is answered at once (65 throws, or 68-73),
\* or the loop begins and uploadFileToGeminiFromUrl fetches the first blob
UploadsPOST ==
  /\ upPc = "idle"
  /\ upBody = NoUploadBody
  /\ \E body \in UploadBodies :
       /\ upBody' = body
       /\ IF body.shape = "notjson"
          THEN /\ upPc' = "done"                                        \* 117-123
               /\ upResp' = UploadResponse(500, <<>>)
               /\ UNCHANGED <<upIndex, ufPc, ufTrace>>
          ELSE IF body.shape = "null" \/ Len(body.blobs) = 0
          THEN /\ upPc' = "done"                                        \* 68-73
               /\ upResp' = UploadResponse(400, <<>>)
               /\ UNCHANGED <<upIndex, ufPc, ufTrace>>
          ELSE /\ upPc' = "loop"                                        \* 76-83
               /\ upIndex' = 1
               /\ ufPc' = "fetch"                                       \* google.ts 69-81
               /\ ufTrace' = <<NoTrace>>
               /\ UNCHANGED upResp
  /\ UNCHANGED <<processedFiles, tempFilePath, ufResult, tmpDir>>

\* google.ts 81-107: the fetch settles.  With content the temporary path is
\* chosen (one per call) and the write is issued; a failed fetch, a non-OK
\* answer or an empty buffer throws
UfFetched ==
  /\ ufPc = "fetch"
  /\ \E outcome \in {"ok", "failed"} :
       IF outcome = "ok"
       THEN /\ tempFilePath' = upIndex
            /\ ufPc' = "write"
            /\ UNCHANGED ufResult
       ELSE /\ ufResult' = "threw"                                      \* 129-145
            /\ ufPc' = UfFinally(tempFilePath, "threw", tmpDir)
            /\ UNCHANGED tempFilePath
  /\ UNCHANGED <<upPc, upBody, upIndex, processedFiles, upResp, tmpDir, ufTrace>>

\* google.ts 107-113: writeFile settles: the file is written and the Gemini
\* upload is issued, or the write fails and leaves a partial file or none
UfWritten ==
  /\ ufPc = "write"
  /\ \E outcome \in {"ok", "partial", "nofile"} :
       LET dir == IF outcome = "nofile" THEN tmpDir ELSE tmpDir \cup {tempFilePath}
       IN /\ tmpDir' = dir
          /\ ufTrace' = [ufTrace EXCEPT ![upIndex].written = (outcome # "nofile")]
          /\ IF outcome = "ok"
             THEN /\ ufPc' = "upload"
                  /\ UNCHANGED ufResult
             ELSE /\ ufResult' = "threw"
                  /\ ufPc' = UfFinally(tempFilePath, "threw", dir)
  /\ UNCHANGED <<upPc, upBody, upIndex, processedFiles, upResp, tempFilePath>>

\* google.ts 113-127 and 17-60: uploadFileToGemini settles
UfUploaded ==
  /\ ufPc = "upload"
  /\ \E outcome \in {"ok", "fail"} :
       LET result == IF outcome = "ok" THEN "returned" ELSE "threw"
       IN /\ ufTrace' = [ufTrace EXCEPT ![upIndex].upload = outcome]
          /\ ufResult' = result
          /\ ufPc' = UfFinally(tempFilePath, result, tmpDir)
  /\ UNCHANGED <<upPc, upBody, upIndex, processedFiles, upResp, tempFilePath, tmpDir>>

\* google.ts 152-160: unlink settles; its failure is caught and logged
UfUnlinked ==
  /\ ufPc = "unlink"
  /\ \E outcome \in {"ok", "fail"} :
       /\ tmpDir' = IF outcome = "ok" THEN tmpDir \ {tempFilePath} ELSE tmpDir
       /\ ufTrace' = [ufTrace EXCEPT ![upIndex].unlink = outcome]
  /\ ufPc' = "out"
  /\ UNCHANGED <<upPc, upBody, upIndex, processedFiles, upResp, tempFilePath, ufResult>>

\* 83-115: the call is over: the blob is pushed or skipped (100-103), and
\* the next blob is taken or the request is answered
UploadsResume ==
  /\ upPc = "loop"
  /\ ufPc = "out"
  /\ LET processed == IF ufResult = "returned"
                      THEN Append(processedFiles, FileOfBlob(upBody.blobs[upIndex]))
                      ELSE processedFiles
     IN /\ processedFiles' = processed
        /\ IF upIndex < Len(upBody.blobs)
           THEN /\ upIndex' = upIndex + 1
                /\ ufPc' = "fetch"
                /\ ufTrace' = Append(ufTrace, NoTrace)
                /\ UNCHANGED <<upPc, upResp>>
           ELSE /\ upPc' = "done"
                /\ upResp' = UploadsAnswer(upBody.blobs, processed)
                /\ ufPc' = "idle"
                /\ UNCHANGED <<upIndex, ufTrace>>
  /\ tempFilePath' = NULL
  /\ ufResult' = "none"
  /\ UNCHANGED <<upBody, tmpDir>>

batchVars == <<reqPc, reqBody, streamController, streams, streamClosed, closedBy,
               orderData, task, results, capReturned, httpResponse, deleteCalls, dbRows,
               orderStatus, saveCalls, clientGone, env>>

vars == <<gcVars, ordVars, batchVars, upVars>>

BatchOff == reqPc = [r \in Requests |-> "off"] /\ BatchInitCommon /\ env = EnvVars

InitCaptions == GcInit /\ OrdInit /\ BatchOff /\ UpInit

NextCaptions ==
  \/ (GcCall /\ UNCHANGED <<ordVars, batchVars, upVars>>)
  \/ (GcAttempt /\ UNCHANGED <<ordVars, batchVars, upVars>>)

InitOrder == GcInit /\ OrdInit /\ BatchOff /\ UpInit

\* One process-uploads request
InitUploads == GcInit /\ OrdInit /\ BatchOff /\ UpInit

NextUploads ==
  \/ (UploadsPOST /\ UNCHANGED <<gcVars, ordVars, batchVars>>)
  \/ (UfFetched /\ UNCHANGED <<gcVars, ordVars, batchVars>>)
  \/ (UfWritten /\ UNCHANGED <<gcVars, ordVars, batchVars>>)
  \/ (UfUploaded /\ UNCHANGED <<gcVars, ordVars, batchVars>>)
  \/ (UfUnlinked /\ UNCHANGED <<gcVars, ordVars, batchVars>>)
  \/ (UploadsResume /\ UNCHANGED <<gcVars, ordVars, batchVars>>)

NextOrder ==
  \/ (OrderArrives /\ UNCHANGED <<gcVars, batchVars, upVars>>)
  \/ (OrderRoutePOST /\ UNCHANGED <<gcVars, batchVars, upVars>>)
  \/ (OrderPart005POST /\ UNCHANGED <<gcVars, batchVars, upVars>>)
  \/ (OrderResubmit /\ UNCHANGED <<gcVars, batchVars, upVars>>)

\* Batch requests served by one server process: all of Requests may overlap
Init ==
  /\ GcInit /\ OrdInit /\ BatchInitCommon /\ UpInit
  /\ reqPc = [r \in Requests |-> "idle"]
  /\ env = EnvVars

\* One batch request taken in isolation
InitSolo ==
  /\ GcInit /\ OrdInit /\ BatchInitCommon /\ UpInit
  /\ reqPc = [r \in Requests |-> IF r = 1 THEN "idle" ELSE "off"]
  /\ env = EnvVars

\* One batch request in a process started with any set of variables
InitEnv ==
  /\ GcInit /\ OrdInit /\ BatchInitCommon /\ UpInit
  /\ reqPc = [r \in Requests |-> IF r = 1 THEN "idle" ELSE "off"]
  /\ env \in SUBSET EnvVars

ServerStep ==
  \/ \E r \in Requests : BatchReceive(r) /\ UNCHANGED <<gcVars, ordVars, upVars>>
  \/ \E r \in Requests : BatchParsed(r) /\ UNCHANGED <<gcVars, ordVars, upVars>>
  \/ \E r \in Requests : BatchParseFails(r) /\ UNCHANGED <<gcVars, ordVars, upVars>>
  \/ \E r \in Requests : OrderReturns(r) /\ UNCHANGED <<gcVars, ordVars, upVars>>
  \/ \E r \in Requests, i \in 1..(MaxSlides + LongPlanLen) : TaskFinish(r, i) /\ UNCHANGED <<gcVars, ordVars, upVars>>
  \/ \E r \in Requests : CleanupFinish(r) /\ UNCHANGED <<gcVars, ordVars, upVars>>
  \/ \E r \in Requests : SaveFinish(r) /\ UNCHANGED <<gcVars, ordVars, upVars>>

Next ==
  \/ ServerStep
  \/ \E r \in Requests : ClientDisconnect(r) /\ UNCHANGED <<gcVars, ordVars, upVars>>

NextEnv ==
  \/ Next
  \/ \E r \in Requests : BatchLoadFails(r) /\ UNCHANGED <<gcVars, ordVars, upVars>>

Spec == Init /\ [][Next]_vars

SpecSolo == InitSolo /\ [][Next]_vars

\* The event loop runs every continuation that is ready, and every upstream
\* call settles: the handler's steps are taken as long as one is enabled.
SpecSoloLive == InitSolo /\ [][Next]_vars /\ WF_vars(ServerStep)

SpecEnv == InitEnv /\ [][NextEnv]_vars

SpecOrder == InitOrder /\ [][NextOrder]_vars

SpecCaptions == InitCaptions /\ [][NextCaptions]_vars

SpecUploads == InitUploads /\ [][NextUploads]_vars

\* ----------------------------------------------------------------- helpers
Terminals(st) == { k \in 1..Len(st) : st[k].type \in {"complete", "error"} }
CompleteEvents(st) == { k \in 1..Len(st) : st[k].type = "complete" }
StatusIdx(st) == { k \in 1..Len(st) : st[k].type = "status" }

\* C1: within one batch run taken in isolation, the progress values of the
\* successive status events on its stream never decrease
C1_ProgressNonDecreasing ==
  \A r \in Requests :
    \A a, b \in StatusIdx(streams[r]) :
      a < b => streams[r][a].progress <= streams[r][b].progress

\* a finished run whose fourth task had to wait in the limiter's queue
C1_Witness ==
  /\ reqPc[1] = "done"
  /\ httpResponse[1] = "stream"
  /\ Len(orderData[1]) = 4
  /\ \E k \in StatusIdx(streams[1]) : streams[1][k].progress = 100

\* C2: every stream of a finished batch request carries exactly one terminal
\* event, which is its last event: a complete that directly follows status
\* 100, or an error with no status 100 before it; never both
C2_OneTerminalEvent ==
  \A r \in Requests :
    LET st == streams[r]
    IN /\ Cardinality(Terminals(st)) <= 1
       /\ \A k \in Terminals(st) :
            /\ k = Len(st)
            /\ st[k].type = "complete" =>
                 (k > 1 /\ st[k - 1].type = "status" /\ st[k - 1].progress = 100)
            /\ st[k].type = "error" =>
                 \A j \in StatusIdx(st) : st[j].progress < 100
       /\ reqPc[r] = "done" => Cardinality(Terminals(st)) = 1

\* C3: every event on a request's stream was emitted on behalf of that request
C3_OwnStreamOnly ==
  \A r \in Requests : \A k \in 1..Len(streams[r]) : streams[r][k].by = r

\* C4: once a batch request has finished, the stream it created is closed,
\* and it was closed by that request
C4_StreamClosedByOwner ==
  \A r \in Requests :
    /\ reqPc[r] = "done" => streamClosed[r]
    /\ streamClosed[r] => closedBy[r] = r

\* C7: the slideshow list of a complete event is as long as the order-stage
\* output, and entry i has the theme and images of order entry i and the
\* captions the caption call for entry i returned
C7_PositionalResults ==
  \A r \in Requests : \A k \in CompleteEvents(streams[r]) :
    LET ev == streams[r][k]
        od == orderData[ev.by]
    IN /\ Len(ev.slideshows) = Len(od)
       /\ \A i \in 1..Len(od) :
            /\ ev.slideshows[i].theme = od[i].theme
            /\ ev.slideshows[i].images = od[i].images
            /\ ev.slideshows[i].captions = capReturned[ev.by][i]

\* a completed run of four distinguishable entries, the first with the
\* placeholder captions and the second with the model's
C7_Witness ==
  \E k \in CompleteEvents(streams[1]) :
    /\ Len(streams[1][k].slideshows) = 4
    /\ streams[1][k].slideshows[1].captions = generateMockCaptions(4)
    /\ streams[1][k].slideshows[2].captions # generateMockCaptions(4)
    /\ streams[1][k].slideshows[1].images # streams[1][k].slideshows[2].images

\* C8: in every slideshow of a complete event the number of captions equals
\* the number of images
C8_CaptionCountIsImageCount ==
  \A r \in Requests : \A k \in CompleteEvents(streams[r]) :
    \A i \in 1..Len(streams[r][k].slideshows) :
      Len(streams[r][k].slideshows[i].captions) = Len(streams[r][k].slideshows[i].images)

\* a completed run that holds both placeholder captions and model captions
C8_Witness ==
  \E k \in CompleteEvents(streams[1]) :
    /\ Len(streams[1][k].slideshows) >= 2
    /\ streams[1][k].slideshows[2].captions = generateMockCaptions(4)
    /\ streams[1][k].slideshows[1].captions = ModelCaptionsFor(
         [j \in 1..4 |-> AbsoluteUrl(orderData[1][1].images[j])])

\* C9: at most 3 caption tasks of a run are in flight at any moment, tasks
\* start in index order, and a queued task starts only in a step in which a
\* running task of the same run finishes
C9_AtMostThreeInFlight ==
  /\ [](\A r \in Requests :
          /\ Cardinality(Running(task[r])) <= 3
          /\ \A i, j \in 1..Len(task[r]) :
               (i < j /\ task[r][i] = "queued") => task[r][j] = "queued")
  /\ [][\A r \in Requests : \A j \in 1..Len(task[r]) :
          (task[r][j] = "queued" /\ task'[r][j] = "running") =>
            \E i \in 1..Len(task[r]) :
              task[r][i] = "running" /\ task'[r][i] \in {"ok", "failed"}]_vars

\* the fourth task runs next to two of the first three, a third having finished
C9_Witness ==
  /\ Len(task[1]) >= 4
  /\ task[1][4] = "running"
  /\ Cardinality(Running(task[1])) = 3

\* C10: generateCaptions never throws, enters the loop at most maxRetries+1
\* times (while running, every iteration so far has advanced `attempt`, which
\* is still within maxRetries), and what it returns is either the caption
\* array the model sent or the placeholder captions.
C10_CaptionsTerminate ==
  /\ gcPc # "threw"
  /\ gcPc # "idle" =>
       /\ gcCalls <= gcArgs.maxRetries + 1
       /\ gcClaude <= gcCalls
       /\ gcPc = "running" => (gcCalls = gcAttempt /\ gcAttempt <= gcArgs.maxRetries)
       /\ gcPc = "returned" =>
            \/ (CaptionsAccepted(gcLast, gcArgs.imageUrls) /\ gcResult = gcLast.captions)
            \/ gcResult = generateMockCaptions(Len(gcArgs.imageUrls))

\* a call with the default maxRetries that used all three attempts on
\* failures and came back with the placeholders
C10_Witness ==
  /\ gcPc = "returned"
  /\ gcArgs.maxRetries = DefaultMaxRetries
  /\ gcCalls = DefaultMaxRetries + 1
  /\ gcLast.kind = "r429"
  /\ gcResult = generateMockCaptions(4)
\* C5: a successful order response holds exactly N x M slideshow entries
C5_OrderCountIsNxM ==
  ordResp.status = 200 =>
    Len(ordResp.slideshows) = Len(ordBody.themes) * ordBody.slideshowsPerTheme

\* C6: every entry of a successful order response has framesPerSlideshow images
C6_OrderFrameCount ==
  ordResp.status = 200 =>
    \A i \in 1..Len(ordResp.slideshows) :
      Len(ordResp.slideshows[i].images) = ordBody.framesPerSlideshow

\* C11: a re-submitted order request whose Gemini call fails in the same way
\* as it did the first time is answered with the same placeholder plan
C11_FallbackIdempotent ==
  ( /\ ordPrev.set
    /\ ordVersion # "none"
    /\ ordPrev.upstream.kind \in {"apierror", "badtext"}
    /\ ordUpstream.kind = ordPrev.upstream.kind )
  => ordResp.slideshows = ordPrev.resp.slideshows

\* C12: whenever the Gemini call of an order request fails (the call errors,
\* the text is not JSON, or the object has no `slideshows` array) the handler
\* answers 200
C12_FallbackOnEveryFailure ==
  ( /\ ordVersion # "none"
    /\ \/ ordUpstream.kind \in {"apierror", "badtext"}
       \/ (ordUpstream.kind = "value" /\ ordUpstream.value.shape = "empty") )
  => ordResp.status = 200

\* C15: an order request without files (none given, or an empty list) is
\* answered 4xx with a message, and no Gemini call is made for it
C15_NoFilesRejected ==
  (ordVersion # "none" /\ (~ordBody.filesGiven \/ Len(ordBody.files) = 0))
  => /\ ordResp.status \in 400..499
     /\ ordResp.error # ""
     /\ ordResp.calls = 0
     /\ ordUpstream = NoUpstream

\* a request without a `files` member, answered by the newer handler
C15_Witness ==
  /\ ordVersion = "part005"
  /\ ~ordBody.filesGiven
  /\ Len(ordBody.themes) > 0
  /\ ordResp.status = 400
  /\ ordResp.error = ErrNoFiles

\* C16: an order request with an empty themes list is answered 4xx with a
\* message, and no Gemini call is made for it
C16_NoThemesRejected ==
  (ordVersion # "none" /\ Len(ordBody.themes) = 0)
  => /\ ordResp.status \in 400..499
     /\ ordResp.error # ""
     /\ ordResp.calls = 0

\* C17: when a successful order response has as many entries as the plan the
\* model returned, image k of entry i is the URL of the uploaded file whose
\* identifier the plan names at that position, or the plan's identifier
\* itself when no uploaded file has it
C17_IdentifiersMapped ==
  ( /\ ordVersion # "none"
    /\ ordResp.status = 200
    /\ ordUpstream.kind = "value"
    /\ ordUpstream.value.shape = "slideshows"
    /\ Len(ordResp.slideshows) = Len(ordUpstream.value.entries) )
  => \A i \in 1..Len(ordResp.slideshows) :
       LET plan == ordUpstream.value.entries[i].images
           out == ordResp.slideshows[i].images
       IN /\ Len(out) = Len(plan)
          /\ \A k \in 1..Len(plan) :
               plan[k] >= 0 =>
                 LET hits == { j \in 1..Len(ordBody.files) : ordBody.files[j].gid = plan[k] }
                 IN IF hits = {} THEN out[k] = plan[k]
                    ELSE \E j \in hits : out[k] = FileUrl(ordBody.files[j])

\* C13: when the saveGeneration call of a run fails, the run's stream still
\* ends with status 100 followed by a complete event that carries every
\* slideshow of the run and no generation id, it holds no error event, and
\* the handler returns the stream
C13_DbFailureSwallowed ==
  \A r \in Requests :
    (saveCalls[r] # <<>> /\ saveCalls[r][1] # "saved") =>
      LET st == streams[r]
          n == Len(st)
      IN /\ n >= 2
         /\ st[n].type = "complete"
         /\ st[n].id = NULL
         /\ st[n].slideshows = Slideshows(results[r])
         /\ Len(st[n].slideshows) = Len(orderData[r])
         /\ \A i \in 1..Len(results[r]) : results[r][i].filled
         /\ st[n - 1].type = "status" /\ st[n - 1].progress = 100
         /\ \A k \in 1..n : st[k].type # "error"
         /\ httpResponse[r] = "stream"

\* a run of two slideshows whose insert failed
C13_Witness ==
  /\ saveCalls[1] = <<"failed">>
  /\ Len(orderData[1]) = 2
  /\ dbRows = <<>>
  /\ reqPc[1] = "done"

\* C14: a run calls saveGeneration at most once, only when the order call
\* succeeded and every caption task has succeeded, never in a run that ends
\* with an error; a step leaves the table as it is or appends one row
C14_SingleInsertAtEnd ==
  /\ [](\A r \in Requests :
          /\ Len(saveCalls[r]) <= 1
          /\ saveCalls[r] # <<>> =>
               /\ orderStatus[r] = 200
               /\ \A i \in 1..Len(task[r]) : task[r][i] = "ok"
               /\ httpResponse[r] = "stream"
               /\ \A k \in 1..Len(streams[r]) : streams[r][k].type # "error"
          /\ httpResponse[r] = "json500" => saveCalls[r] = <<>>)
  /\ [][/\ Len(dbRows') \in {Len(dbRows), Len(dbRows) + 1}
        /\ SubSeq(dbRows', 1, Len(dbRows)) = dbRows]_vars

\* a run of four slideshows that inserted its row
C14_Witness ==
  /\ saveCalls[1] = <<"saved">>
  /\ Len(task[1]) = 4
  /\ Len(dbRows) = 1
  /\ Len(dbRows[1].slideshows) = 4

\* C18: a batch request is handled only when GEMINI_API_KEY and DATABASE_URL
\* are set (its route imports google.ts and db.ts), and a caption request
\* is served only when ANTHROPIC_API_KEY is set
C18_MissingEnvIsFatal ==
  \A r \in Requests :
    /\ (reqPc[r] \notin {"off", "idle"} /\ httpResponse[r] # "loaderror")
         => {"GEMINI_API_KEY", "DATABASE_URL"} \subseteq env
    /\ (\E i \in 1..Len(task[r]) : task[r][i] = "ok") => "ANTHROPIC_API_KEY" \in env

\* C19: the step in which the client disconnects changes nothing of the run;
\* after it the run still finishes with every caption task settled; and a
\* finished run whose order call and caption tasks all succeeded has called
\* deleteGeminiFile for every file and saveGeneration once
C19_DisconnectCancelsNothing ==
  /\ [][\A r \in Requests :
          (clientGone'[r] /\ ~clientGone[r]) =>
            UNCHANGED <<reqPc, task, results, streams, streamController, streamClosed,
                        deleteCalls, saveCalls, dbRows, httpResponse>>]_vars
  /\ \A r \in Requests :
       [](clientGone[r] =>
            <>(/\ reqPc[r] = "done"
               /\ \A i \in 1..Len(task[r]) : task[r][i] \in {"ok", "failed"}))
  /\ [](\A r \in Requests :
          ( /\ clientGone[r]
            /\ reqPc[r] = "done"
            /\ orderStatus[r] = 200
            /\ \A i \in 1..Len(task[r]) : task[r][i] = "ok" )
          => /\ Len(deleteCalls[r]) = Len(reqBody[r].files)
             /\ Len(saveCalls[r]) = 1)

\* a run of four slideshows that finished after its client had gone
C19_Witness ==
  /\ clientGone[1]
  /\ reqPc[1] = "done"
  /\ Len(task[1]) = 4
  /\ \A i \in 1..4 : task[1][i] = "ok"
  /\ Len(deleteCalls[1]) = 3
  /\ saveCalls[1] = <<"saved">>

\* C20: a run has caption tasks only once its order call has returned a 2xx
\* response; while it has not, or when the response is not 2xx, the run has
\* no caption task, no deleteGeminiFile call and no saveGeneration call
C20_OrderBeforeCaptions ==
  \A r \in Requests :
    /\ task[r] # <<>> => orderStatus[r] \in 200..299
    /\ orderStatus[r] \notin 200..299 =>
         /\ task[r] = <<>>
         /\ capReturned[r] = <<>>
         /\ deleteCalls[r] = <<>>
         /\ saveCalls[r] = <<>>
         /\ reqPc[r] \notin {"captions", "cleanup", "save"}

\* a run whose order call was answered 500
C20_Witness ==
  /\ orderStatus[1] = 500
  /\ reqPc[1] = "done"
  /\ httpResponse[1] = "json500"
  /\ Len(reqBody[1].files) = 3

\* C21: globalThis.streamController is at every moment null or the controller
\* of a stream that is not closed; a closed stream receives no further event;
\* and an event sent while the reference is null goes to no stream
C21_ControllerNullOrOpen ==
  /\ [](streamController # NULL => ~streamClosed[streamController])
  /\ [][\A r \in Requests : streamClosed[r] => streams'[r] = streams[r]]_vars
  /\ [][(streamController = NULL /\ streamController' = NULL) => streams' = streams]_vars

\* a run of five slideshows closed by a caption failure: its fifth task was
\* started afterwards, and the status event of that task is on no stream
C21_Witness ==
  /\ streamClosed[1]
  /\ streamController = NULL
  /\ httpResponse[1] = "json500"
  /\ Len(task[1]) = LongPlanLen
  /\ task[1][LongPlanLen] # "queued"
  /\ \E k \in StatusIdx(streams[1]) :
       streams[1][k].progress = TaskProgress(LongPlanLen - 2, LongPlanLen)
  /\ \A k \in StatusIdx(streams[1]) :
       streams[1][k].progress # TaskProgress(LongPlanLen - 1, LongPlanLen)

\* C22: a stream carries a complete event only when every slideshow of the
\* order-stage output has exactly 4 images; for a slide with another number
\* of images the caption handler answers 400 without a call to the model,
\* its task never succeeds, and the run, once finished, has ended with an
\* error event and the 500 response
C22_CompleteNeedsFourImages ==
  /\ \A slide \in BatchSlides[FALSE] : \A outs \in CaptionRuns(slide, FALSE) :
       Len(slide.images) # 4 =>
         CaptionHandler(slide, outs) = [status |-> 400, captions |-> <<>>, claude |-> 0]
  /\ \A r \in Requests :
       /\ CompleteEvents(streams[r]) # {} =>
            \A i \in 1..Len(orderData[r]) : Len(orderData[r][i].images) = 4
       /\ \A i \in 1..Len(task[r]) :
            Len(orderData[r][i].images) # 4 =>
              (task[r][i] # "ok" /\ capReturned[r][i] = <<>> /\ ~results[r][i].filled)
       /\ (reqPc[r] = "done" /\ \E i \in 1..Len(orderData[r]) : Len(orderData[r][i].images) # 4)
            => /\ httpResponse[r] = "json500"
               /\ \E k \in 1..Len(streams[r]) : streams[r][k].type = "error"

\* a run configured for three frames whose order stage returned three-image
\* slideshows only, ended by the caption handler's rejection
C22_Witness ==
  /\ reqBody[1].framesPerSlideshow = 3
  /\ orderStatus[1] = 200
  /\ orderData[1] # <<>>
  /\ \A i \in 1..Len(orderData[1]) : Len(orderData[1][i].images) = 3
  /\ \E i \in 1..Len(task[1]) : task[1][i] = "failed"
  /\ reqPc[1] = "done"
  /\ httpResponse[1] = "json500"

\* C23: an order request for which the Gemini call was made has at least one
\* file of each kind; a request with files that lacks a kind is answered 400
\* with the message about the kinds, and no Gemini call is made for it
C23_AllKindsBeforeGemini ==
  ordVersion # "none" =>
    LET present == { ordBody.files[j].kind : j \in 1..Len(ordBody.files) }
        complete == {"face", "faceless", "product"} \subseteq present
    IN /\ ordResp.calls > 0 => complete
       /\ ordUpstream # NoUpstream => complete
       /\ (ordBody.filesGiven /\ Len(ordBody.files) > 0 /\ ~complete)
            => /\ ordResp.status = 400
               /\ ordResp.error = ErrTypes
               /\ ordResp.calls = 0
               /\ ordUpstream = NoUpstream

\* a request with a face and a faceless image and no product image
C23_Witness ==
  /\ ordVersion = "route"
  /\ Len(ordBody.files) = 2
  /\ \A j \in 1..2 : ordBody.files[j].kind # "product"
  /\ Len(ordBody.themes) > 0
  /\ ordResp.status = 400
  /\ ordResp.calls = 0

\* C24: deleteGeminiFile is called for the files of a run in one step, once
\* for each file of the request and in their order, only when the order call
\* and every caption task have succeeded, and before the insert and the
\* complete event; a run that made the calls ends with the complete event
\* and the stream response whatever their outcomes; a run that ended with
\* the 500 response made none
C24_CleanupOnceBeforeSave ==
  /\ [](\A r \in Requests :
          /\ deleteCalls[r] # <<>> =>
               /\ orderStatus[r] = 200
               /\ \A i \in 1..Len(task[r]) : task[r][i] = "ok"
               /\ Len(deleteCalls[r]) = Len(reqBody[r].files)
               /\ \A j \in 1..Len(deleteCalls[r]) :
                    deleteCalls[r][j].id = reqBody[r].files[j].gid
          /\ (saveCalls[r] # <<>> \/ CompleteEvents(streams[r]) # {}) =>
               Len(deleteCalls[r]) = Len(reqBody[r].files)
          /\ httpResponse[r] = "json500" => deleteCalls[r] = <<>>
          /\ (reqPc[r] = "done" /\ deleteCalls[r] # <<>>) =>
               /\ httpResponse[r] = "stream"
               /\ streams[r][Len(streams[r])].type = "complete")
  /\ [][\A r \in Requests :
          deleteCalls'[r] # deleteCalls[r] =>
            /\ deleteCalls[r] = <<>>
            /\ saveCalls'[r] = <<>>
            /\ dbRows' = dbRows
            /\ CompleteEvents(streams'[r]) = {}]_vars

\* a completed run of which one deletion failed and another succeeded
C24_Witness ==
  /\ reqPc[1] = "done"
  /\ Len(deleteCalls[1]) = 3
  /\ deleteCalls[1][1].outcome = "failed"
  /\ deleteCalls[1][2].outcome = "deleted"
  /\ httpResponse[1] = "stream"
  /\ CompleteEvents(streams[1]) # {}
  /\ Len(orderData[1]) >= 2

\* C25: the handler answers only when the run is over; a run whose order
\* call was not answered 2xx (or never made) or one of whose caption tasks
\* failed is answered with the 500 JSON body; a stream that carries an error
\* event is never the response; and the stream is the response only when
\* the order call and every caption task succeeded and the stream ends with
\* the complete event
C25_FailureAnswersJson500 ==
  \A r \in Requests :
    LET st == streams[r]
        errors == { k \in 1..Len(st) : st[k].type = "error" }
    IN /\ httpResponse[r] # "none" <=> reqPc[r] = "done"
       /\ ( /\ reqPc[r] = "done"
            /\ \/ orderStatus[r] \notin 200..299
               \/ \E i \in 1..Len(task[r]) : task[r][i] = "failed" )
            => httpResponse[r] = "json500"
       /\ errors # {} => httpResponse[r] = "json500"
       /\ httpResponse[r] = "json500" => (errors = {Len(st)} /\ streamClosed[r])
       /\ httpResponse[r] = "stream" =>
            /\ orderStatus[r] \in 200..299
            /\ \A i \in 1..Len(task[r]) : task[r][i] = "ok"
            /\ errors = {}
            /\ CompleteEvents(st) = {Len(st)}

\* a run ended by a failed caption call after the order call had succeeded
C25_Witness ==
  /\ reqPc[1] = "done"
  /\ orderStatus[1] = 200
  /\ Len(task[1]) >= 2
  /\ task[1][2] = "failed"
  /\ task[1][1] = "ok"
  /\ httpResponse[1] = "json500"
  /\ streams[1][Len(streams[1])].type = "error"

\* C27: an attempt that meets a 404 not_found_error ends the call, whatever
\* the attempt number: the call returns the placeholder captions in that
\* step, without a wait, and no upstream call follows
C27_NotFoundNeverRetried ==
  /\ [](gcLast.kind = "e404" =>
          /\ gcPc = "returned"
          /\ gcResult = generateMockCaptions(Len(gcArgs.imageUrls)))
  /\ [][(gcCalls' # gcCalls /\ gcLast'.kind = "e404") =>
          /\ gcCalls' = gcCalls + 1
          /\ gcWaits' = gcWaits
          /\ gcPc' = "returned"]_vars
  /\ [][gcLast.kind = "e404" => (gcCalls' = gcCalls /\ gcClaude' = gcClaude)]_vars

\* a 404 met on the second of four possible attempts
C27_Witness ==
  /\ gcLast.kind = "e404"
  /\ gcArgs.maxRetries = 3
  /\ gcCalls = 2
  /\ gcPc = "returned"

RECURSIVE Pow2(_)
Pow2(n) == IF n = 0 THEN 1 ELSE 2 * Pow2(n - 1)

\* C28: an attempt that meets a rate-limit error with retries left waits
\* once: the k-th such wait of the call lasts initialDelay * 2^(k-1) ms when
\* the error has no Retry-After header and Retry-After * 1000 ms when the
\* header is a number, and the delay doubles; any other attempt adds no wait
\* and leaves the delay as it is
C28_BackoffSchedule ==
  /\ [](gcPc # "idle" => gcDelay = gcArgs.initialDelay * Pow2(Len(gcWaits)))
  /\ [][gcCalls' # gcCalls =>
          IF gcLast'.kind = "r429" /\ gcAttempt < gcArgs.maxRetries
          THEN /\ Len(gcWaits') = Len(gcWaits) + 1
               /\ SubSeq(gcWaits', 1, Len(gcWaits)) = gcWaits
               /\ gcLast'.retryAfter = NoHeader =>
                    gcWaits'[Len(gcWaits')] = gcArgs.initialDelay * Pow2(Len(gcWaits))
               /\ gcLast'.retryAfter >= 0 =>
                    gcWaits'[Len(gcWaits')] = gcLast'.retryAfter * 1000
               /\ gcDelay' = 2 * gcDelay
               /\ gcAttempt' = gcAttempt + 1
          ELSE /\ gcWaits' = gcWaits
               /\ gcDelay' = gcDelay]_vars

\* a call with the default arguments that waited 1000 ms and then 2000 ms
C28_Witness ==
  /\ gcArgs.maxRetries = DefaultMaxRetries
  /\ gcArgs.initialDelay = DefaultInitialDelay
  /\ gcWaits = <<1000, 2000>>
  /\ gcLast.kind = "r429"
  /\ gcPc = "returned"

\* C26: a process-uploads request with a non-empty list is answered once
\* every blob of the list has been tried: 200 with the entries of the blobs
\* whose Gemini upload succeeded, in the order of the list, or 500 when none
\* succeeded; a request answered 500 has registered no blob; an empty list
\* is answered 400
C26_RegisteredBlobsInOrder ==
  upPc = "done" =>
    LET blobs == upBody.blobs
        ok == [i \in 1..Len(ufTrace) |-> ufTrace[i].upload = "ok"]
    IN /\ (upBody.shape = "list" /\ Len(blobs) = 0) => upResp.status = 400
       /\ upResp.status = 500 => \A i \in 1..Len(ufTrace) : ~ok[i]
       /\ (upBody.shape = "list" /\ Len(blobs) > 0) =>
            /\ Len(ufTrace) = Len(blobs)
            /\ IF \A i \in 1..Len(blobs) : ~ok[i]
               THEN upResp.status = 500
               ELSE /\ upResp.status = 200
                    /\ upResp.files =
                         SelectSeq2([i \in 1..Len(blobs) |->
                                       [kind |-> blobs[i].kind, gid |-> blobs[i].blobUrl - 200,
                                        localUrl |-> NULL, blobUrl |-> blobs[i].blobUrl]],
                                    ok)

\* three blobs of which the second could not be registered
C26_Witness ==
  /\ upPc = "done"
  /\ Len(upBody.blobs) = 3
  /\ upBody.blobs[1] # upBody.blobs[3]
  /\ ufTrace[1].upload = "ok"
  /\ ufTrace[2].upload = "fail"
  /\ ufTrace[3].upload = "ok"
  /\ upResp.status = 200
  /\ Len(upResp.files) = 2

\* C29: once a call of uploadFileToGeminiFromUrl is over, its temporary file
\* is on disk only if the unlink itself failed; unlink was called whenever
\* the file had been written; and the call returned exactly when the Gemini
\* upload succeeded, whatever the unlink did
C29_NoTempFileLeft ==
  \A i \in 1..Len(ufTrace) :
    (i < upIndex \/ ufPc = "out" \/ upPc = "done") =>
      /\ i \in tmpDir => ufTrace[i].unlink = "fail"
      /\ ufTrace[i].written => ufTrace[i].unlink # "none"
      /\ (i = upIndex /\ ufPc = "out") =>
           (ufResult = "returned" <=> ufTrace[i].upload = "ok")

\* a finished request whose first call failed at the Gemini upload and
\* deleted its file, and whose second call succeeded while its unlink failed
C29_Witness ==
  /\ upPc = "done"
  /\ Len(ufTrace) = 2
  /\ ufTrace[1] = [written |-> TRUE, upload |-> "fail", unlink |-> "ok"]
  /\ ufTrace[2] = [written |-> TRUE, upload |-> "ok", unlink |-> "fail"]
  /\ tmpDir = {2}
  /\ upResp.status = 200
====
